---------------------------- MODULE Spec2Model ----------------------------
(***************************************************************************)
(* Restaurant order management system: the bounded buffer (SharedBuffer),  *)
(* the chef (producer) and waiter (consumer) threads that drive it, and    *)
(* the presentation thread that observes and controls them.                *)
(*                                                                         *)
(* Every thread has a program counter.  One action models one step of the  *)
(* code between two accesses to shared objects (semaphores, the mutex,     *)
(* the events, the counters).  threading.Lock is not reentrant: a thread   *)
(* that asks for a lock it already holds waits like any other thread.      *)
(***************************************************************************)
EXTENDS Integers, Sequences, FiniteSets, TLC

VARIABLES
    buffer,          \* SharedBuffer.buffer: deque of order ids, head first
    empty_slots,     \* SharedBuffer.empty_slots: permits of the semaphore
    full_slots,      \* SharedBuffer.full_slots: permits of the semaphore
    mutex,           \* SharedBuffer.mutex: the thread holding it, or Free
    total_produced,  \* SharedBuffer.total_produced
    total_consumed,  \* SharedBuffer.total_consumed
    shutdown_event,  \* SharedBuffer.shutdown_event
    order_counter,   \* ChefThread._order_counter
    status,          \* Order.status of every order id
    waiter_id,       \* Order.waiter_id of every order id
    pc,              \* where every thread is in its code
    retpc,           \* where a thread continues after get_buffer_state
    order,           \* the local variable `order` of a worker
    result,          \* what the last buffer call of a worker returned
    snap,            \* the list copy a thread took in get_buffer_state
    current_state,   \* ChefThread/WaiterThread.current_state
    stop_event,      \* ChefThread/WaiterThread.stop_event
    pause_event,     \* ChefThread/WaiterThread.pause_event
    orders_produced, \* ChefThread.orders_produced
    orders_delivered,\* WaiterThread.orders_delivered
    orders_blocked,  \* ChefThread/WaiterThread.orders_blocked
    speed_multiplier,\* ChefThread/WaiterThread.speed_multiplier, in tenths
    calls,           \* operations the presentation thread has started
    cycles,          \* work cycles the workers have begun
    completed        \* the reset and shutdown calls that have returned

vars == <<buffer, empty_slots, full_slots, mutex, total_produced,
          total_consumed, shutdown_event, order_counter, status, waiter_id,
          pc, retpc, order, result, snap, current_state,
          stop_event, pause_event, orders_produced, orders_delivered,
          orders_blocked, speed_multiplier, calls, cycles, completed>>

bufferVars == <<buffer, empty_slots, full_slots, mutex, total_produced,
                total_consumed, shutdown_event>>
orderVars  == <<order_counter, status, waiter_id>>
workerVars == <<current_state, stop_event, pause_event, orders_produced,
                orders_delivered, orders_blocked, speed_multiplier>>

(***************************************************************************)
(* Bounds of the model.                                                    *)
(***************************************************************************)
Capacity   == 1   \* SharedBuffer(capacity)
MaxCycles  == 2   \* work cycles the workers begin in one run
MaxCalls   == 2   \* operations the presentation thread starts in one run

\* shared_buffer.py:271, the permits of each kind shutdown() releases
ShutdownPermits == 10

Chefs    == {"chef0", "chef1"}
Waiters  == {"waiter0"}
Workers  == Chefs \cup Waiters
Gui      == "gui"
Threads  == Workers \cup {Gui}
Free     == "free"
NoOrder  == 0
Orders   == 1..MaxCycles

ThreadStates == {"IDLE", "RUNNING", "WAITING", "BLOCKED", "PAUSED",
                 "TERMINATED"}
OrderStatuses == {"None", "Created", "In Preparation", "Ready",
                  "Being Delivered", "Delivered"}

(***************************************************************************)
(* The state after SharedBuffer(Capacity) and every ChefThread and         *)
(* WaiterThread have been constructed and start() has been called on each. *)
(***************************************************************************)
Init ==
    /\ buffer = <<>>
    /\ empty_slots = Capacity
    /\ full_slots = 0
    /\ mutex = Free
    /\ total_produced = 0
    /\ total_consumed = 0
    /\ shutdown_event = FALSE
    /\ order_counter = 0
    /\ status = [o \in Orders |-> "None"]
    /\ waiter_id = [o \in Orders |-> "nobody"]
    /\ pc = [t \in Threads |-> IF t = Gui THEN "idle" ELSE "start"]
    /\ retpc = [t \in Threads |-> "idle"]
    /\ order = [t \in Workers |-> NoOrder]
    /\ result = [t \in Workers |-> "pending"]
    /\ snap = [t \in Threads |-> <<>>]
    /\ current_state = [t \in Workers |-> "IDLE"]
    /\ stop_event = [t \in Workers |-> FALSE]
    /\ pause_event = [t \in Workers |-> TRUE]
    /\ orders_produced = [t \in Chefs |-> 0]
    /\ orders_delivered = [t \in Waiters |-> 0]
    /\ orders_blocked = [t \in Workers |-> 0]
    /\ speed_multiplier = [t \in Workers |-> 10]
    /\ calls = 0
    /\ cycles = 0
    /\ completed = <<>>

(***************************************************************************)
(* SharedBuffer.get_buffer_state, called directly by the presentation      *)
(* thread and, through _notify_gui, by every notification of the buffer.   *)
(***************************************************************************)

\* the lock taken for an RLock: the holder may acquire it again
reentrant_lock_available(t) == mutex \in {Free, t}

\* self.mutex = threading.Lock(): acquire() returns only when no thread
\* holds the lock, the caller itself included.
lock_available(t) == mutex = Free

\* The state_lock of worker w.  The worker itself holds it for the two
\* assignments of _set_state, which are one step of the model; the
\* presentation thread holds it while get_state_info(w) reads the state.
state_lock_holder(w) ==
    IF pc[Gui] = "gsi_state" /\ retpc[Gui] = w THEN Gui ELSE Free

\* `with self.state_lock:` of worker t can be entered
state_lock_available(t) == state_lock_holder(t) = Free

\* `with self.mutex:` of get_buffer_state: waits until the mutex is free,
\* copies the deque and releases the mutex.
get_buffer_state_copy(t) ==
    /\ pc[t] = "gbs_lock"
    /\ lock_available(t)
    /\ snap' = [snap EXCEPT ![t] = buffer]
    /\ pc' = [pc EXCEPT ![t] = "gbs_stats"]
    /\ UNCHANGED <<bufferVars, orderVars, workerVars, retpc, order, result,
                   calls, cycles, completed>>

\* What the caller of a notification does when _notify_gui returns, up to
\* its next access to a shared object.
\*   p_blocking, c_blocking      the call timed out and returns False / None
\*   p_production, c_consumption the first notification of the critical
\*                               section returned, the second one starts
\*   p_info, c_info              the second one returned, the `with` block
\*                               ends and the mutex is released
\*   r_done, s_done, idle        reset, shutdown or a direct call returns
AfterPc(t) ==
    CASE retpc[t] = "p_blocking"    -> "placed"
      [] retpc[t] = "c_blocking"    -> "picked"
      [] retpc[t] = "p_production"  -> "gbs_lock"
      [] retpc[t] = "c_consumption" -> "gbs_lock"
      [] retpc[t] = "p_info"        -> "p_signal"
      [] retpc[t] = "c_info"        -> "c_signal"
      [] OTHER                      -> "idle"

AfterRetpc(t) ==
    CASE retpc[t] = "p_production"  -> "p_info"
      [] retpc[t] = "c_consumption" -> "c_info"
      [] OTHER                      -> "idle"

\* the dict get_buffer_state returns to thread t, built under stats_lock
\* from the copy of the deque and the counters
buffer_state(t) ==
    [current_size   |-> Len(snap[t]),
     capacity       |-> Capacity,
     total_produced |-> total_produced,
     total_consumed |-> total_consumed,
     empty_slots_available |-> Capacity - Len(snap[t]),
     full_slots_available  |-> Len(snap[t])]

\* `with self.stats_lock:` of get_buffer_state: the dict is returned and
\* the caller goes on.  The last notification of reset and of shutdown is
\* the end of the call.
get_buffer_state_return(t) ==
    /\ pc[t] = "gbs_stats"
    /\ snap' = [snap EXCEPT ![t] = <<>>]
    /\ pc' = [pc EXCEPT ![t] = AfterPc(t)]
    /\ retpc' = [retpc EXCEPT ![t] = AfterRetpc(t)]
    /\ mutex' = IF retpc[t] \in {"p_info", "c_info"} THEN Free ELSE mutex
    /\ result' = IF retpc[t] = "p_blocking"
                   THEN [result EXCEPT ![t] = "False"]
                 ELSE IF retpc[t] = "c_blocking"
                   THEN [result EXCEPT ![t] = "None"]
                 ELSE result
    /\ completed' = IF retpc[t] = "s_done"
                      THEN Append(completed, "shutdown")
                    ELSE IF retpc[t] = "r_done"
                      THEN Append(completed, "reset")
                    ELSE completed
    /\ UNCHANGED <<buffer, empty_slots, full_slots, total_produced,
                   total_consumed, shutdown_event, orderVars, workerVars,
                   order, calls, cycles>>

\* The callback of the presentation layer raises when _notify_gui calls it:
\* the event is built and queued, `except Exception: pass` swallows the
\* error, and _notify_gui returns to its caller as after a callback that
\* returned.
callback_raises(t) ==
    /\ pc[t] = "gbs_stats"
    /\ retpc[t] # "idle"
    /\ snap' = [snap EXCEPT ![t] = <<>>]
    /\ pc' = [pc EXCEPT ![t] = AfterPc(t)]
    /\ retpc' = [retpc EXCEPT ![t] = AfterRetpc(t)]
    /\ mutex' = IF retpc[t] \in {"p_info", "c_info"} THEN Free ELSE mutex
    /\ result' = IF retpc[t] = "p_blocking"
                   THEN [result EXCEPT ![t] = "False"]
                 ELSE IF retpc[t] = "c_blocking"
                   THEN [result EXCEPT ![t] = "None"]
                 ELSE result
    /\ completed' = IF retpc[t] = "s_done"
                      THEN Append(completed, "shutdown")
                    ELSE IF retpc[t] = "r_done"
                      THEN Append(completed, "reset")
                    ELSE completed
    /\ UNCHANGED <<buffer, empty_slots, full_slots, total_produced,
                   total_consumed, shutdown_event, orderVars, workerVars,
                   order, calls, cycles>>

\* SharedBuffer._notify_gui: the event carries get_buffer_state().
notify_gui(t, after) ==
    /\ pc' = [pc EXCEPT ![t] = "gbs_lock"]
    /\ retpc' = [retpc EXCEPT ![t] = after]

(***************************************************************************)
(* SharedBuffer.produce, called by chef t with its order.                  *)
(***************************************************************************)

\* a produce that does not look at shutdown_event before it asks for a permit
produce_enter_unchecked(t) ==
    /\ pc[t] = "p_enter"
    /\ pc' = [pc EXCEPT ![t] = "p_acquire"]
    /\ UNCHANGED <<bufferVars, orderVars, workerVars, retpc, order, result,
                   snap, calls, cycles, completed>>

\* if self.shutdown_event.is_set(): return False
produce_enter(t) ==
    /\ pc[t] = "p_enter"
    /\ IF shutdown_event
         THEN /\ pc' = [pc EXCEPT ![t] = "placed"]
              /\ result' = [result EXCEPT ![t] = "False"]
         ELSE /\ pc' = [pc EXCEPT ![t] = "p_acquire"]
              /\ UNCHANGED result
    /\ UNCHANGED <<bufferVars, orderVars, workerVars, retpc, order, snap,
                   calls, cycles, completed>>

\* self.empty_slots.acquire(timeout=timeout) takes a permit
produce_acquire(t) ==
    /\ pc[t] = "p_acquire"
    /\ empty_slots > 0
    /\ empty_slots' = empty_slots - 1
    /\ pc' = [pc EXCEPT ![t] = "p_check"]
    /\ UNCHANGED <<buffer, full_slots, mutex, total_produced, total_consumed,
                   shutdown_event, orderVars, workerVars, retpc, order,
                   result, snap, calls, cycles, completed>>

\* a timeout that is counted as a production
produce_timeout_counting(t) ==
    /\ pc[t] = "p_acquire"
    /\ empty_slots = 0
    /\ total_produced' = total_produced + 1
    /\ notify_gui(t, "p_blocking")
    /\ UNCHANGED <<buffer, empty_slots, full_slots, mutex, total_consumed,
                   shutdown_event, orderVars, workerVars, order, result,
                   snap, calls, cycles, completed>>

\* self.empty_slots.acquire(timeout=timeout) finds no permit until the
\* timeout: the 'blocking' notification, then return False
produce_timeout(t) ==
    /\ pc[t] = "p_acquire"
    /\ empty_slots = 0
    /\ notify_gui(t, "p_blocking")
    /\ UNCHANGED <<bufferVars, orderVars, workerVars, order, result, snap,
                   calls, cycles, completed>>

\* the second look at shutdown_event, with the permit in hand
produce_check(t) ==
    /\ pc[t] = "p_check"
    /\ pc' = [pc EXCEPT ![t] = IF shutdown_event THEN "p_giveback"
                                                 ELSE "p_lock"]
    /\ UNCHANGED <<bufferVars, orderVars, workerVars, retpc, order, result,
                   snap, calls, cycles, completed>>

\* a produce that marks the appended order as just created
produce_critical_restarting(t) ==
    /\ pc[t] = "p_lock"
    /\ lock_available(t)
    /\ mutex' = t
    /\ buffer' = Append(buffer, order[t])
    /\ status' = [status EXCEPT ![order[t]] = "Created"]
    /\ total_produced' = total_produced + 1
    /\ notify_gui(t, "p_production")
    /\ UNCHANGED <<empty_slots, full_slots, total_consumed, shutdown_event,
                   order_counter, waiter_id, workerVars, order, result,
                   snap, calls, cycles, completed>>

\* `with self.mutex:` of produce: append, complete_preparation, count, and
\* the 'production' notification from inside the critical section
produce_critical(t) ==
    /\ pc[t] = "p_lock"
    /\ lock_available(t)
    /\ mutex' = t
    /\ buffer' = Append(buffer, order[t])
    /\ status' = [status EXCEPT ![order[t]] = "Ready"]
    /\ total_produced' = total_produced + 1
    /\ notify_gui(t, "p_production")
    /\ UNCHANGED <<empty_slots, full_slots, total_consumed, shutdown_event,
                   order_counter, waiter_id, workerVars, order, result,
                   snap, calls, cycles, completed>>

\* the permit releases of produce: the permit given back when shutdown was
\* seen (return False), and V(full) after the critical section (return True)
produce_release(t) ==
    /\ pc[t] \in {"p_giveback", "p_signal"}
    /\ IF pc[t] = "p_giveback"
         THEN /\ empty_slots' = empty_slots + 1
              /\ result' = [result EXCEPT ![t] = "False"]
              /\ UNCHANGED full_slots
         ELSE /\ full_slots' = full_slots + 1
              /\ result' = [result EXCEPT ![t] = "True"]
              /\ UNCHANGED empty_slots
    /\ pc' = [pc EXCEPT ![t] = "placed"]
    /\ UNCHANGED <<buffer, mutex, total_produced, total_consumed,
                   shutdown_event, orderVars, workerVars, retpc, order,
                   snap, calls, cycles, completed>>

(***************************************************************************)
(* SharedBuffer.consume, called by waiter t.                               *)
(***************************************************************************)

\* if self.shutdown_event.is_set(): return None
consume_enter(t) ==
    /\ pc[t] = "c_enter"
    /\ IF shutdown_event
         THEN /\ pc' = [pc EXCEPT ![t] = "picked"]
              /\ result' = [result EXCEPT ![t] = "None"]
         ELSE /\ pc' = [pc EXCEPT ![t] = "c_acquire"]
              /\ UNCHANGED result
    /\ UNCHANGED <<bufferVars, orderVars, workerVars, retpc, order, snap,
                   calls, cycles, completed>>

\* self.full_slots.acquire(timeout=timeout) takes a permit
consume_acquire(t) ==
    /\ pc[t] = "c_acquire"
    /\ full_slots > 0
    /\ full_slots' = full_slots - 1
    /\ pc' = [pc EXCEPT ![t] = "c_check"]
    /\ UNCHANGED <<buffer, empty_slots, mutex, total_produced, total_consumed,
                   shutdown_event, orderVars, workerVars, retpc, order,
                   result, snap, calls, cycles, completed>>

\* a timeout that hands back a permit the call never took
consume_timeout_releasing(t) ==
    /\ pc[t] = "c_acquire"
    /\ full_slots = 0
    /\ full_slots' = full_slots + 1
    /\ notify_gui(t, "c_blocking")
    /\ UNCHANGED <<buffer, empty_slots, mutex, total_produced, total_consumed,
                   shutdown_event, orderVars, workerVars, order, result,
                   snap, calls, cycles, completed>>

\* self.full_slots.acquire(timeout=timeout) finds no permit until the
\* timeout: the 'blocking' notification, then return None
consume_timeout(t) ==
    /\ pc[t] = "c_acquire"
    /\ full_slots = 0
    /\ notify_gui(t, "c_blocking")
    /\ UNCHANGED <<bufferVars, orderVars, workerVars, order, result, snap,
                   calls, cycles, completed>>

\* the second look at shutdown_event, with the permit in hand
consume_check(t) ==
    /\ pc[t] = "c_check"
    /\ pc' = [pc EXCEPT ![t] = IF shutdown_event THEN "c_giveback"
                                                 ELSE "c_lock"]
    /\ UNCHANGED <<bufferVars, orderVars, workerVars, retpc, order, result,
                   snap, calls, cycles, completed>>

\* `with self.mutex:` of consume.  An empty deque: the permit is released
\* again and None returned.  Otherwise popleft, start_delivery, count, and
\* the 'consumption' notification from inside the critical section.
consume_critical(t) ==
    /\ pc[t] = "c_lock"
    /\ lock_available(t)
    /\ IF buffer = <<>>
         THEN /\ full_slots' = full_slots + 1
              /\ result' = [result EXCEPT ![t] = "None"]
              /\ pc' = [pc EXCEPT ![t] = "picked"]
              /\ UNCHANGED <<buffer, mutex, total_consumed, status,
                             waiter_id, order, retpc>>
         ELSE /\ mutex' = t
              /\ buffer' = Tail(buffer)
              /\ order' = [order EXCEPT ![t] = Head(buffer)]
              /\ waiter_id' = [waiter_id EXCEPT ![Head(buffer)] = t]
              /\ status' = [status EXCEPT ![Head(buffer)] = "Being Delivered"]
              /\ total_consumed' = total_consumed + 1
              /\ notify_gui(t, "c_consumption")
              /\ UNCHANGED <<full_slots, result>>
    /\ UNCHANGED <<empty_slots, total_produced, shutdown_event, order_counter,
                   workerVars, snap, calls, cycles, completed>>

\* the permit releases of consume: the permit given back when shutdown was
\* seen (return None), and V(empty) after the critical section (return order)
consume_release(t) ==
    /\ pc[t] \in {"c_giveback", "c_signal"}
    /\ IF pc[t] = "c_giveback"
         THEN /\ full_slots' = full_slots + 1
              /\ result' = [result EXCEPT ![t] = "None"]
              /\ UNCHANGED empty_slots
         ELSE /\ empty_slots' = empty_slots + 1
              /\ result' = [result EXCEPT ![t] = "Order"]
              /\ UNCHANGED full_slots
    /\ pc' = [pc EXCEPT ![t] = "picked"]
    /\ UNCHANGED <<buffer, mutex, total_produced, total_consumed,
                   shutdown_event, orderVars, workerVars, retpc, order,
                   snap, calls, cycles, completed>>

(***************************************************************************)
(* SharedBuffer.reset and SharedBuffer.shutdown, called by the             *)
(* presentation thread.                                                    *)
(***************************************************************************)

\* self.shutdown_event.set(), then the sleep
reset_begin ==
    /\ pc[Gui] = "idle"
    /\ calls < MaxCalls
    /\ calls' = calls + 1
    /\ shutdown_event' = TRUE
    /\ pc' = [pc EXCEPT ![Gui] = "r_lock"]
    /\ UNCHANGED <<buffer, empty_slots, full_slots, mutex, total_produced,
                   total_consumed, orderVars, workerVars, retpc, order,
                   result, snap, cycles, completed>>

\* `with self.mutex:` of reset: the deque is cleared and both semaphores
\* are drained with non-blocking acquires
reset_drain ==
    /\ pc[Gui] = "r_lock"
    /\ lock_available(Gui)
    /\ mutex' = Gui
    /\ buffer' = <<>>
    /\ empty_slots' = 0
    /\ full_slots' = 0
    /\ pc' = [pc EXCEPT ![Gui] = "r_refill"]
    /\ UNCHANGED <<total_produced, total_consumed, shutdown_event, orderVars,
                   workerVars, retpc, order, result, snap, calls, cycles,
                   completed>>

\* for _ in range(self.capacity): self.empty_slots.release(); the `with`
\* block ends
reset_refill ==
    /\ pc[Gui] = "r_refill"
    /\ empty_slots' = empty_slots + Capacity
    /\ mutex' = Free
    /\ pc' = [pc EXCEPT ![Gui] = "r_stats"]
    /\ UNCHANGED <<buffer, full_slots, total_produced, total_consumed,
                   shutdown_event, orderVars, workerVars, retpc, order,
                   result, snap, calls, cycles, completed>>

\* a reset that also restarts the numbering of the orders
reset_stats_renumbering ==
    /\ pc[Gui] = "r_stats"
    /\ total_produced' = 0
    /\ total_consumed' = 0
    /\ order_counter' = 0
    /\ pc' = [pc EXCEPT ![Gui] = "r_clear"]
    /\ UNCHANGED <<buffer, empty_slots, full_slots, mutex, shutdown_event,
                   status, waiter_id, workerVars, retpc, order, result, snap,
                   calls, cycles, completed>>

\* `with self.stats_lock:` of reset
reset_stats ==
    /\ pc[Gui] = "r_stats"
    /\ total_produced' = 0
    /\ total_consumed' = 0
    /\ pc' = [pc EXCEPT ![Gui] = "r_clear"]
    /\ UNCHANGED <<buffer, empty_slots, full_slots, mutex, shutdown_event,
                   orderVars, workerVars, retpc, order, result, snap,
                   calls, cycles, completed>>

\* self.shutdown_event.clear() and the 'system' notification
reset_clear ==
    /\ pc[Gui] = "r_clear"
    /\ shutdown_event' = FALSE
    /\ notify_gui(Gui, "r_done")
    /\ UNCHANGED <<buffer, empty_slots, full_slots, mutex, total_produced,
                   total_consumed, orderVars, workerVars, order, result,
                   snap, calls, cycles, completed>>

\* a shutdown that flips the flag instead of setting it
shutdown_begin_toggling ==
    /\ pc[Gui] = "idle"
    /\ calls < MaxCalls
    /\ calls' = calls + 1
    /\ shutdown_event' = ~shutdown_event
    /\ pc' = [pc EXCEPT ![Gui] = "s_release"]
    /\ UNCHANGED <<buffer, empty_slots, full_slots, mutex, total_produced,
                   total_consumed, orderVars, workerVars, retpc, order,
                   result, snap, cycles, completed>>

\* self.shutdown_event.set()
shutdown_begin ==
    /\ pc[Gui] = "idle"
    /\ calls < MaxCalls
    /\ calls' = calls + 1
    /\ shutdown_event' = TRUE
    /\ pc' = [pc EXCEPT ![Gui] = "s_release"]
    /\ UNCHANGED <<buffer, empty_slots, full_slots, mutex, total_produced,
                   total_consumed, orderVars, workerVars, retpc, order,
                   result, snap, cycles, completed>>

\* the release loop of shutdown (permits are only added, whatever the other
\* threads do meanwhile) and the 'system' notification
shutdown_release ==
    /\ pc[Gui] = "s_release"
    /\ empty_slots' = empty_slots + ShutdownPermits
    /\ full_slots' = full_slots + ShutdownPermits
    /\ notify_gui(Gui, "s_done")
    /\ UNCHANGED <<buffer, mutex, total_produced, total_consumed,
                   shutdown_event, orderVars, workerVars, order, result,
                   snap, calls, cycles, completed>>

\* a direct call of get_buffer_state (the periodic display update)
observe ==
    /\ pc[Gui] = "idle"
    /\ calls < MaxCalls
    /\ calls' = calls + 1
    /\ notify_gui(Gui, "idle")
    /\ UNCHANGED <<bufferVars, orderVars, workerVars, order, result, snap,
                   cycles, completed>>

(***************************************************************************)
(* ChefThread.run and WaiterThread.run.                                    *)
(***************************************************************************)

\* self._set_state(ThreadState.RUNNING) before the loop
worker_start(t) ==
    /\ pc[t] = "start"
    /\ state_lock_available(t)
    /\ current_state' = [current_state EXCEPT ![t] = "RUNNING"]
    /\ pc' = [pc EXCEPT ![t] = "loop"]
    /\ UNCHANGED <<bufferVars, orderVars, stop_event, pause_event,
                   speed_multiplier, orders_produced, orders_delivered,
                   orders_blocked, retpc, order, result, snap, calls, cycles,
                   completed>>


\* a loop that goes on with the next cycle whatever stop_event says
worker_loop_unstoppable(t) ==
    /\ pc[t] = "loop"
    /\ pause_event[t]
    /\ cycles < MaxCycles
    /\ pc' = [pc EXCEPT ![t] = IF t \in Chefs THEN "create" ELSE "wait"]
    /\ cycles' = cycles + 1
    /\ UNCHANGED <<bufferVars, orderVars, workerVars, retpc, order, result,
                   snap, calls, completed>>

\* the top of the loop: `while not self.stop_event.is_set()`, then
\* `if not self.pause_event.is_set()` with _set_state(PAUSED)
worker_loop(t) ==
    /\ pc[t] = "loop"
    /\ IF stop_event[t]
         THEN /\ pc' = [pc EXCEPT ![t] = "finally"]
              /\ UNCHANGED current_state
         ELSE IF ~pause_event[t]
           THEN /\ state_lock_available(t)
                /\ pc' = [pc EXCEPT ![t] = "pausing"]
                /\ current_state' = [current_state EXCEPT ![t] = "PAUSED"]
           ELSE /\ cycles < MaxCycles
                /\ pc' = [pc EXCEPT ![t] = IF t \in Chefs THEN "create"
                                                          ELSE "wait"]
                /\ UNCHANGED current_state
    /\ cycles' = IF stop_event[t] \/ ~pause_event[t] THEN cycles
                                                     ELSE cycles + 1
    /\ UNCHANGED <<bufferVars, orderVars, stop_event, pause_event,
                   speed_multiplier, orders_produced, orders_delivered,
                   orders_blocked, retpc, order, result, snap, calls,
                   completed>>

\* The two tests of the loop top as two steps, for the runs in which the
\* presentation thread acts between them.
\* `while not self.stop_event.is_set()` finds the flag clear
worker_while(t) ==
    /\ pc[t] = "loop"
    /\ ~stop_event[t]
    /\ pc' = [pc EXCEPT ![t] = "gate"]
    /\ UNCHANGED <<bufferVars, orderVars, workerVars, retpc, order, result,
                   snap, calls, cycles, completed>>

\* `if not self.pause_event.is_set()` with _set_state(PAUSED); else the
\* cycle begins
worker_gate(t) ==
    /\ pc[t] = "gate"
    /\ IF ~pause_event[t]
         THEN /\ state_lock_available(t)
              /\ pc' = [pc EXCEPT ![t] = "pausing"]
              /\ current_state' = [current_state EXCEPT ![t] = "PAUSED"]
              /\ UNCHANGED cycles
         ELSE /\ cycles < MaxCycles
              /\ pc' = [pc EXCEPT ![t] = IF t \in Chefs THEN "create"
                                                        ELSE "wait"]
              /\ cycles' = cycles + 1
              /\ UNCHANGED current_state
    /\ UNCHANGED <<bufferVars, orderVars, stop_event, pause_event,
                   speed_multiplier, orders_produced, orders_delivered,
                   orders_blocked, retpc, order, result, snap, calls,
                   completed>>

\* self.pause_event.wait(): returns at once when the event is set, parks
\* the thread otherwise (set() wakes every parked thread)
pause_wait(t) ==
    /\ pc[t] = "pausing"
    /\ pc' = [pc EXCEPT ![t] = IF pause_event[t] THEN "woken" ELSE "parked"]
    /\ UNCHANGED <<bufferVars, orderVars, workerVars, retpc, order, result,
                   snap, calls, cycles, completed>>

\* a worker that goes back to work after the wait and leaves its state as
\* it is
worker_woken_staying(t) ==
    /\ pc[t] = "woken"
    /\ IF stop_event[t]
         THEN /\ pc' = [pc EXCEPT ![t] = "finally"]
         ELSE /\ cycles < MaxCycles
              /\ pc' = [pc EXCEPT ![t] = IF t \in Chefs THEN "create"
                                                        ELSE "wait"]
    /\ cycles' = IF stop_event[t] THEN cycles ELSE cycles + 1
    /\ UNCHANGED <<bufferVars, orderVars, workerVars, retpc, order, result,
                   snap, calls, completed>>

\* a worker that goes back to work after the wait without looking at
\* stop_event
worker_woken_unchecked(t) ==
    /\ pc[t] = "woken"
    /\ cycles < MaxCycles
    /\ state_lock_available(t)
    /\ pc' = [pc EXCEPT ![t] = IF t \in Chefs THEN "create" ELSE "wait"]
    /\ current_state' = [current_state EXCEPT ![t] = "RUNNING"]
    /\ cycles' = cycles + 1
    /\ UNCHANGED <<bufferVars, orderVars, stop_event, pause_event,
                   speed_multiplier, orders_produced, orders_delivered,
                   orders_blocked, retpc, order, result, snap, calls,
                   completed>>

\* after the wait: `if self.stop_event.is_set(): break`, else
\* _set_state(RUNNING)
worker_woken(t) ==
    /\ pc[t] = "woken"
    /\ IF stop_event[t]
         THEN /\ pc' = [pc EXCEPT ![t] = "finally"]
              /\ UNCHANGED current_state
         ELSE /\ cycles < MaxCycles
              /\ state_lock_available(t)
              /\ pc' = [pc EXCEPT ![t] = IF t \in Chefs THEN "create"
                                                        ELSE "wait"]
              /\ current_state' = [current_state EXCEPT ![t] = "RUNNING"]
    /\ cycles' = IF stop_event[t] THEN cycles ELSE cycles + 1
    /\ UNCHANGED <<bufferVars, orderVars, stop_event, pause_event,
                   speed_multiplier, orders_produced, orders_delivered,
                   orders_blocked, retpc, order, result, snap, calls,
                   completed>>

\* a worker that writes its last state without taking its state_lock
worker_finally_unlocked(t) ==
    /\ pc[t] = "finally"
    /\ current_state' = [current_state EXCEPT ![t] = "TERMINATED"]
    /\ pc' = [pc EXCEPT ![t] = "terminated"]
    /\ UNCHANGED <<bufferVars, orderVars, stop_event, pause_event,
                   speed_multiplier, orders_produced, orders_delivered,
                   orders_blocked, retpc, order, result, snap, calls, cycles,
                   completed>>

\* finally: self._set_state(ThreadState.TERMINATED)
worker_finally(t) ==
    /\ pc[t] = "finally"
    /\ state_lock_available(t)
    /\ current_state' = [current_state EXCEPT ![t] = "TERMINATED"]
    /\ pc' = [pc EXCEPT ![t] = "terminated"]
    /\ UNCHANGED <<bufferVars, orderVars, stop_event, pause_event,
                   speed_multiplier, orders_produced, orders_delivered,
                   orders_blocked, retpc, order, result, snap, calls, cycles,
                   completed>>

\* An exception leaves the body of the loop: the `try` of run() encloses the
\* whole `while`, so the handler runs after the loop and the `finally`
\* comes next.  A chef: random.choice raises in _create_order, after the
\* counter has been incremented.  A waiter: the division in _sleep_scaled
\* raises in the sleep that ends the cycle.
worker_error(t) ==
    /\ pc[t] = IF t \in Chefs THEN "create" ELSE "rest"
    /\ order_counter' = IF t \in Chefs THEN order_counter + 1
                                        ELSE order_counter
    /\ pc' = [pc EXCEPT ![t] = "finally"]
    /\ UNCHANGED <<bufferVars, status, waiter_id, workerVars, retpc, order,
                   result, snap, calls, cycles, completed>>

\* ChefThread._create_order: the next id of the class-wide counter
chef_create(t) ==
    /\ pc[t] = "create"
    /\ order_counter' = order_counter + 1
    /\ order' = [order EXCEPT ![t] = order_counter + 1]
    /\ status' = [status EXCEPT ![order_counter + 1] = "Created"]
    /\ pc' = [pc EXCEPT ![t] = "prepare"]
    /\ UNCHANGED <<bufferVars, waiter_id, workerVars, retpc, result, snap,
                   calls, cycles, completed>>

\* ChefThread._prepare_order: start_preparation, _set_state(RUNNING)
chef_prepare(t) ==
    /\ pc[t] = "prepare"
    /\ state_lock_available(t)
    /\ status' = [status EXCEPT ![order[t]] = "In Preparation"]
    /\ current_state' = [current_state EXCEPT ![t] = "RUNNING"]
    /\ pc' = [pc EXCEPT ![t] = "cooking"]
    /\ UNCHANGED <<bufferVars, order_counter, waiter_id, stop_event,
                   pause_event, speed_multiplier, orders_produced,
                   orders_delivered, orders_blocked, retpc, order, result,
                   snap, calls, cycles, completed>>

\* the preparation sleep ends (its time is over or stop_event is set), then
\* self._set_state(ThreadState.WAITING)
chef_cooked(t) ==
    /\ pc[t] = "cooking"
    /\ state_lock_available(t)
    /\ current_state' = [current_state EXCEPT ![t] = "WAITING"]
    /\ pc' = [pc EXCEPT ![t] = "place"]
    /\ UNCHANGED <<bufferVars, orderVars, stop_event, pause_event,
                   speed_multiplier, orders_produced, orders_delivered,
                   orders_blocked, retpc, order, result, snap, calls, cycles,
                   completed>>

\* ChefThread._place_order: _set_state(BLOCKED), then the produce call
chef_place(t) ==
    /\ pc[t] = "place"
    /\ state_lock_available(t)
    /\ current_state' = [current_state EXCEPT ![t] = "BLOCKED"]
    /\ pc' = [pc EXCEPT ![t] = "p_enter"]
    /\ UNCHANGED <<bufferVars, orderVars, stop_event, pause_event,
                   speed_multiplier, orders_produced, orders_delivered,
                   orders_blocked, retpc, order, result, snap, calls, cycles,
                   completed>>

\* a chef that counts every order it has offered as produced
chef_count_optimistic(t) ==
    /\ pc[t] = "placed"
    /\ state_lock_available(t)
    /\ orders_produced' = [orders_produced EXCEPT ![t] = @ + 1]
    /\ current_state' = [current_state EXCEPT ![t] = "RUNNING"]
    /\ order' = [order EXCEPT ![t] = NoOrder]
    /\ result' = [result EXCEPT ![t] = "pending"]
    /\ pc' = [pc EXCEPT ![t] = "rest"]
    /\ UNCHANGED <<bufferVars, orderVars, stop_event, pause_event,
                   speed_multiplier, orders_delivered, orders_blocked, retpc,
                   snap, calls, cycles, completed>>

\* after _place_order: count the order or the failure, forget the order
chef_count(t) ==
    /\ pc[t] = "placed"
    /\ IF result[t] = "True"
         THEN /\ state_lock_available(t)
              /\ orders_produced' = [orders_produced EXCEPT ![t] = @ + 1]
              /\ current_state' = [current_state EXCEPT ![t] = "RUNNING"]
              /\ UNCHANGED orders_blocked
         ELSE /\ orders_blocked' = [orders_blocked EXCEPT ![t] = @ + 1]
              /\ UNCHANGED <<orders_produced, current_state>>
    /\ order' = [order EXCEPT ![t] = NoOrder]
    /\ result' = [result EXCEPT ![t] = "pending"]
    /\ pc' = [pc EXCEPT ![t] = "rest"]
    /\ UNCHANGED <<bufferVars, orderVars, stop_event, pause_event,
                   speed_multiplier, orders_delivered, retpc, snap, calls,
                   cycles, completed>>

\* the sleep between two orders ends
chef_rested(t) ==
    /\ pc[t] = "rest"
    /\ t \in Chefs
    /\ pc' = [pc EXCEPT ![t] = "loop"]
    /\ UNCHANGED <<bufferVars, orderVars, workerVars, retpc, order, result,
                   snap, calls, cycles, completed>>

\* self._set_state(ThreadState.WAITING) of the waiter's cycle
waiter_wait(t) ==
    /\ pc[t] = "wait"
    /\ state_lock_available(t)
    /\ current_state' = [current_state EXCEPT ![t] = "WAITING"]
    /\ pc' = [pc EXCEPT ![t] = "pickup"]
    /\ UNCHANGED <<bufferVars, orderVars, stop_event, pause_event,
                   speed_multiplier, orders_produced, orders_delivered,
                   orders_blocked, retpc, order, result, snap, calls, cycles,
                   completed>>

\* WaiterThread._pickup_order: _set_state(BLOCKED), then the consume call
waiter_pickup(t) ==
    /\ pc[t] = "pickup"
    /\ state_lock_available(t)
    /\ current_state' = [current_state EXCEPT ![t] = "BLOCKED"]
    /\ pc' = [pc EXCEPT ![t] = "c_enter"]
    /\ UNCHANGED <<bufferVars, orderVars, stop_event, pause_event,
                   speed_multiplier, orders_produced, orders_delivered,
                   orders_blocked, retpc, order, result, snap, calls, cycles,
                   completed>>

\* after _pickup_order: with an order, _set_state(RUNNING) and the delivery
\* begins; with None, the failure is counted.  The returned value is not
\* looked at again.
waiter_picked(t) ==
    /\ pc[t] = "picked"
    /\ IF result[t] = "Order"
         THEN /\ state_lock_available(t)
              /\ current_state' = [current_state EXCEPT ![t] = "RUNNING"]
              /\ pc' = [pc EXCEPT ![t] = "deliver"]
              /\ UNCHANGED orders_blocked
         ELSE /\ orders_blocked' = [orders_blocked EXCEPT ![t] = @ + 1]
              /\ pc' = [pc EXCEPT ![t] = "rest"]
              /\ UNCHANGED current_state
    /\ result' = [result EXCEPT ![t] = "pending"]
    /\ UNCHANGED <<bufferVars, orderVars, stop_event, pause_event,
                   speed_multiplier, orders_produced, orders_delivered, retpc,
                   order, snap, calls, cycles, completed>>

\* a sleep of the waiter ends (its time is over or stop_event is set).
\* The delivery sleep: complete_delivery unless stop_event is set, the order
\* is counted and forgotten, the next sleep begins.  The sleep between two
\* cycles: back to the top of the loop.
waiter_slept(t) ==
    /\ pc[t] \in {"deliver", "rest"}
    /\ t \in Waiters
    /\ IF pc[t] = "deliver"
         THEN /\ status' = IF stop_event[t] THEN status
                           ELSE [status EXCEPT ![order[t]] = "Delivered"]
              /\ orders_delivered' = [orders_delivered EXCEPT ![t] = @ + 1]
              /\ order' = [order EXCEPT ![t] = NoOrder]
              /\ pc' = [pc EXCEPT ![t] = "rest"]
         ELSE /\ pc' = [pc EXCEPT ![t] = "loop"]
              /\ UNCHANGED <<status, orders_delivered, order>>
    /\ UNCHANGED <<bufferVars, order_counter, waiter_id, current_state,
                   stop_event, pause_event, speed_multiplier, orders_produced,
                   orders_blocked, retpc, result, snap, calls, cycles,
                   completed>>

(***************************************************************************)
(* pause, resume and stop of a worker, called by the presentation thread.  *)
(***************************************************************************)

\* Event.set() wakes the thread parked in wait()
Wake(t) == [pc EXCEPT ![t] = IF pc[t] = "parked" THEN "woken" ELSE pc[t]]

\* a pause that puts the worker into PAUSED itself, wherever the worker is
pause_interrupting(t) ==
    /\ pc[Gui] = "idle"
    /\ calls < MaxCalls
    /\ calls' = calls + 1
    /\ pause_event' = [pause_event EXCEPT ![t] = FALSE]
    /\ current_state' = [current_state EXCEPT ![t] = "PAUSED"]
    /\ UNCHANGED <<bufferVars, orderVars, stop_event, speed_multiplier,
                   orders_produced, orders_delivered, orders_blocked, pc,
                   retpc, order, result, snap, cycles, completed>>

\* self.pause_event.clear()
pause(t) ==
    /\ pc[Gui] = "idle"
    /\ calls < MaxCalls
    /\ calls' = calls + 1
    /\ pause_event' = [pause_event EXCEPT ![t] = FALSE]
    /\ UNCHANGED <<bufferVars, orderVars, current_state, stop_event,
                   speed_multiplier, orders_produced, orders_delivered,
                   orders_blocked, pc, retpc, order, result, snap, cycles,
                   completed>>

\* a resume that puts the worker back to RUNNING itself
resume_restarting(t) ==
    /\ pc[Gui] = "idle"
    /\ calls < MaxCalls
    /\ calls' = calls + 1
    /\ pause_event' = [pause_event EXCEPT ![t] = TRUE]
    /\ current_state' = [current_state EXCEPT ![t] = "RUNNING"]
    /\ pc' = Wake(t)
    /\ UNCHANGED <<bufferVars, orderVars, stop_event, speed_multiplier,
                   orders_produced, orders_delivered, orders_blocked, retpc,
                   order, result, snap, cycles, completed>>

\* self.pause_event.set()
resume(t) ==
    /\ pc[Gui] = "idle"
    /\ calls < MaxCalls
    /\ calls' = calls + 1
    /\ pause_event' = [pause_event EXCEPT ![t] = TRUE]
    /\ pc' = Wake(t)
    /\ UNCHANGED <<bufferVars, orderVars, current_state, stop_event,
                   speed_multiplier, orders_produced, orders_delivered,
                   orders_blocked, retpc, order, result, snap, cycles,
                   completed>>

\* self.stop_event.set()
stop_begin(t) ==
    /\ pc[Gui] = "idle"
    /\ calls < MaxCalls
    /\ calls' = calls + 1
    /\ stop_event' = [stop_event EXCEPT ![t] = TRUE]
    /\ pc' = [pc EXCEPT ![Gui] = "stopping"]
    /\ retpc' = [retpc EXCEPT ![Gui] = t]
    /\ UNCHANGED <<bufferVars, orderVars, current_state, pause_event,
                   speed_multiplier, orders_produced, orders_delivered,
                   orders_blocked, order, result, snap, cycles, completed>>

\* self.pause_event.set() of stop
stop_release ==
    /\ pc[Gui] = "stopping"
    /\ pause_event' = [pause_event EXCEPT ![retpc[Gui]] = TRUE]
    /\ pc' = [Wake(retpc[Gui]) EXCEPT ![Gui] = "idle"]
    /\ retpc' = [retpc EXCEPT ![Gui] = "idle"]
    /\ UNCHANGED <<bufferVars, orderVars, current_state, stop_event,
                   speed_multiplier, orders_produced, orders_delivered,
                   orders_blocked, order, result, snap, calls, cycles,
                   completed>>

\* the speed values the callers pass, in tenths: 0.0, 2.0 and 10.0
SpeedInputs == {0, 20, 100}

\* max(0.1, min(5.0, speed_multiplier)), in tenths
ClampSpeed(x) == IF x < 1 THEN 1 ELSE IF x > 50 THEN 50 ELSE x

\* self.speed_multiplier = max(0.1, min(5.0, speed_multiplier))
set_speed(t) ==
    /\ pc[Gui] = "idle"
    /\ calls < MaxCalls
    /\ calls' = calls + 1
    /\ \E x \in SpeedInputs :
          speed_multiplier' = [speed_multiplier EXCEPT ![t] = ClampSpeed(x)]
    /\ UNCHANGED <<bufferVars, orderVars, current_state, stop_event,
                   pause_event, orders_produced, orders_delivered,
                   orders_blocked, pc, retpc, order, result, snap, cycles,
                   completed>>

(***************************************************************************)
(* get_state_info of worker t, called by the presentation thread for its   *)
(* statistics display.                                                     *)
(***************************************************************************)

\* `with self.state_lock:` of get_state_info, for a thread that is alive
get_state_info_lock(t) ==
    /\ pc[Gui] = "idle"
    /\ calls < MaxCalls
    /\ calls' = calls + 1
    /\ pc[t] # "terminated"
    /\ pc' = [pc EXCEPT ![Gui] = "gsi_state"]
    /\ retpc' = [retpc EXCEPT ![Gui] = t]
    /\ UNCHANGED <<bufferVars, orderVars, workerVars, order, result, snap,
                   cycles, completed>>

\* the state_lock is released; `with self.stats_lock:` and the return
get_state_info_stats ==
    /\ pc[Gui] = "gsi_state"
    /\ pc' = [pc EXCEPT ![Gui] = "idle"]
    /\ retpc' = [retpc EXCEPT ![Gui] = "idle"]
    /\ UNCHANGED <<bufferVars, orderVars, workerVars, order, result, snap,
                   calls, cycles, completed>>

(***************************************************************************)
(* RestaurantGUI._reset_simulation: stop() of every worker, join of every  *)
(* worker with a timeout of one second, then reset() of the buffer.        *)
(* retpc of the presentation thread is the worker whose turn it is.        *)
(***************************************************************************)

\* the order of the loops: self.chef_threads, then self.waiter_threads
WorkerOrder == <<"chef0", "chef1", "waiter0">>

FirstWorker == WorkerOrder[1]

LastWorker == WorkerOrder[Len(WorkerOrder)]

\* the worker that follows t in the loops
NextWorker(t) ==
    WorkerOrder[(CHOOSE i \in 1..Len(WorkerOrder) : WorkerOrder[i] = t) + 1]

\* the reset button: the first loop begins
reset_simulation_begin ==
    /\ pc[Gui] = "idle"
    /\ calls < MaxCalls
    /\ calls' = calls + 1
    /\ pc' = [pc EXCEPT ![Gui] = "rs_stop"]
    /\ retpc' = [retpc EXCEPT ![Gui] = FirstWorker]
    /\ UNCHANGED <<bufferVars, orderVars, workerVars, order, result, snap,
                   cycles, completed>>

\* chef.stop() / waiter.stop(): self.stop_event.set()
reset_simulation_stop ==
    /\ pc[Gui] = "rs_stop"
    /\ stop_event' = [stop_event EXCEPT ![retpc[Gui]] = TRUE]
    /\ pc' = [pc EXCEPT ![Gui] = "rs_release"]
    /\ UNCHANGED <<bufferVars, orderVars, current_state, pause_event,
                   speed_multiplier, orders_produced, orders_delivered,
                   orders_blocked, retpc, order, result, snap, calls, cycles,
                   completed>>

\* self.pause_event.set() of that stop(); then the next worker, and after
\* the last one the join loops
reset_simulation_release ==
    /\ pc[Gui] = "rs_release"
    /\ pause_event' = [pause_event EXCEPT ![retpc[Gui]] = TRUE]
    /\ IF retpc[Gui] = LastWorker
         THEN /\ pc' = [Wake(retpc[Gui]) EXCEPT ![Gui] = "rs_join"]
              /\ retpc' = [retpc EXCEPT ![Gui] = FirstWorker]
         ELSE /\ pc' = [Wake(retpc[Gui]) EXCEPT ![Gui] = "rs_stop"]
              /\ retpc' = [retpc EXCEPT ![Gui] = NextWorker(retpc[Gui])]
    /\ UNCHANGED <<bufferVars, orderVars, current_state, stop_event,
                   speed_multiplier, orders_produced, orders_delivered,
                   orders_blocked, order, result, snap, calls, cycles,
                   completed>>

\* worker t spends the second of join(timeout=1.0) waiting inside a buffer
\* call: for a permit (produce and consume are called with timeout=2.0) or
\* for the mutex (no timeout)
join_times_out(t) ==
    \/ pc[t] = "p_acquire" /\ empty_slots = 0
    \/ pc[t] = "c_acquire" /\ full_slots = 0
    \/ pc[t] \in {"p_lock", "c_lock", "gbs_lock"} /\ ~lock_available(t)

\* chef.join(timeout=1.0) / waiter.join(timeout=1.0) returns: the thread
\* has ended, or the second is over; then the next worker, and after the
\* last one the call of reset
reset_simulation_join ==
    /\ pc[Gui] = "rs_join"
    /\ pc[retpc[Gui]] = "terminated" \/ join_times_out(retpc[Gui])
    /\ IF retpc[Gui] = LastWorker
         THEN /\ pc' = [pc EXCEPT ![Gui] = "rs_reset"]
              /\ retpc' = [retpc EXCEPT ![Gui] = "idle"]
         ELSE /\ pc' = pc
              /\ retpc' = [retpc EXCEPT ![Gui] = NextWorker(retpc[Gui])]
    /\ UNCHANGED <<bufferVars, orderVars, workerVars, order, result, snap,
                   calls, cycles, completed>>

\* self.shared_buffer.reset(): its first statement
reset_simulation_reset ==
    /\ pc[Gui] = "rs_reset"
    /\ shutdown_event' = TRUE
    /\ pc' = [pc EXCEPT ![Gui] = "r_lock"]
    /\ UNCHANGED <<buffer, empty_slots, full_slots, mutex, total_produced,
                   total_consumed, orderVars, workerVars, retpc, order,
                   result, snap, calls, cycles, completed>>

(***************************************************************************)
(* The system.                                                             *)
(***************************************************************************)
\* a step of chef t that is not a reaction to pause() or stop()
ChefWork(t) ==
    \/ worker_start(t) \/ worker_loop(t)
    \/ chef_create(t) \/ chef_prepare(t) \/ chef_cooked(t) \/ chef_place(t)
    \/ chef_count(t) \/ chef_rested(t)
    \/ produce_enter(t) \/ produce_acquire(t) \/ produce_timeout(t)
    \/ produce_check(t) \/ produce_critical(t) \/ produce_release(t)
    \/ get_buffer_state_copy(t) \/ get_buffer_state_return(t)

\* a step of waiter t that is not a reaction to pause() or stop()
WaiterWork(t) ==
    \/ worker_start(t) \/ worker_loop(t)
    \/ waiter_wait(t) \/ waiter_pickup(t) \/ waiter_picked(t)
    \/ waiter_slept(t)
    \/ consume_enter(t) \/ consume_acquire(t) \/ consume_timeout(t)
    \/ consume_check(t) \/ consume_critical(t) \/ consume_release(t)
    \/ get_buffer_state_copy(t) \/ get_buffer_state_return(t)

\* a step of worker t in reaction to pause() or stop()
WorkerControlled(t) ==
    pause_wait(t) \/ worker_woken(t) \/ worker_finally(t)

WorkerStep(t) ==
    \/ t \in Chefs /\ ChefWork(t)
    \/ t \in Waiters /\ WaiterWork(t)
    \/ WorkerControlled(t)

\* the presentation thread uses the buffer
GuiBuffer ==
    \/ reset_begin \/ reset_drain \/ reset_refill \/ reset_stats
    \/ reset_clear
    \/ shutdown_begin \/ shutdown_release
    \/ observe
    \/ get_buffer_state_copy(Gui) \/ get_buffer_state_return(Gui)

\* the presentation thread controls a worker
GuiControl ==
    \/ \E t \in Workers : pause(t) \/ resume(t) \/ stop_begin(t)
    \/ stop_release
    \/ \E t \in Workers : set_speed(t)

(***************************************************************************)
(* Spec: every thread.  BufferSpec: the runs in which no worker is paused  *)
(* or stopped.  The Fair specifications add what the scheduler of the      *)
(* operating system guarantees: a thread that can take a step eventually   *)
(* takes one.  What the user does (the presentation thread starting a new  *)
(* operation) is never forced.                                             *)
(***************************************************************************)
BufferNext ==
    \/ \E t \in Chefs : ChefWork(t)
    \/ \E t \in Waiters : WaiterWork(t)
    \/ GuiBuffer

Next ==
    \/ BufferNext
    \/ \E t \in Workers : WorkerControlled(t)
    \/ GuiControl

\* the steps by which the presentation thread goes on with an operation it
\* has started
GuiProgress ==
    \/ reset_drain \/ reset_refill \/ reset_stats \/ reset_clear
    \/ shutdown_release \/ stop_release
    \/ get_buffer_state_copy(Gui) \/ get_buffer_state_return(Gui)

Fairness ==
    /\ \A t \in Workers : WF_vars(WorkerStep(t))
    /\ WF_vars(GuiProgress)

\* the runs in which no chef was started: the waiters and the presentation
\* thread are alone with the buffer
ConsumerNext ==
    \/ \E t \in Waiters : WaiterWork(t)
    \/ GuiBuffer

ConsumerFairness ==
    /\ \A t \in Waiters : WF_vars(WaiterWork(t))
    /\ WF_vars(GuiProgress)

\* the runs in which one worker only, a chef or a waiter, runs: the run()
\* of the other workers has not begun
Alone(t) == \A u \in Workers \ {t} : pc[u] = "start"

SoloStep(t) == Alone(t) /\ WorkerStep(t)

SoloControl(t) ==
    Alone(t) /\ (pause(t) \/ resume(t) \/ stop_begin(t) \/ set_speed(t))

SoloNext ==
    \/ \E t \in Workers : SoloStep(t) \/ SoloControl(t)
    \/ stop_release
    \/ GuiBuffer

SoloFairness ==
    /\ \A t \in Workers : WF_vars(SoloStep(t))
    /\ WF_vars(GuiProgress)

\* the same runs, in which a statement of the worker may raise an exception
SoloError(t) == Alone(t) /\ worker_error(t)

FaultNext ==
    \/ SoloNext
    \/ \E t \in Workers : SoloError(t)

\* RestaurantGUI._reset_simulation, up to the call of reset()
ResetSequence ==
    \/ reset_simulation_begin \/ reset_simulation_stop
    \/ reset_simulation_release \/ reset_simulation_join
    \/ reset_simulation_reset

\* the runs in which the user may press the reset button and no worker is
\* paused
SimulationNext ==
    \/ BufferNext
    \/ \E t \in Workers : worker_finally(t)
    \/ ResetSequence

\* the runs of SimulationNext in which the periodic display update does not
\* read the buffer: the workers run, the buffer is reset or shut down, the
\* user presses the reset button
RunNext ==
    \/ \E t \in Chefs : ChefWork(t)
    \/ \E t \in Waiters : WaiterWork(t)
    \/ \E t \in Workers : worker_finally(t)
    \/ ResetSequence
    \/ reset_begin \/ reset_drain \/ reset_refill \/ reset_stats
    \/ reset_clear
    \/ shutdown_begin \/ shutdown_release
    \/ get_buffer_state_copy(Gui) \/ get_buffer_state_return(Gui)

\* the same runs as SoloNext, with the statistics display reading the
\* workers
DisplayNext ==
    \/ SoloNext
    \/ \E t \in Workers : get_state_info_lock(t)
    \/ get_state_info_stats

\* the runs of BufferNext in which the callback handed to the buffer may
\* raise
CallbackNext ==
    \/ BufferNext
    \/ \E t \in Threads : callback_raises(t)

\* the same runs as SoloNext, with the loop top of the running worker in
\* two steps
GateNext ==
    \/ SoloNext
    \/ \E t \in Workers : Alone(t) /\ (worker_while(t) \/ worker_gate(t))

Spec == Init /\ [][Next]_vars

BufferSpec == Init /\ [][BufferNext]_vars

FairSpec == Spec /\ Fairness

FairBufferSpec == BufferSpec /\ Fairness

ConsumerSpec == Init /\ [][ConsumerNext]_vars

FairConsumerSpec == ConsumerSpec /\ ConsumerFairness

SoloSpec == Init /\ [][SoloNext]_vars

FairSoloSpec == SoloSpec /\ SoloFairness

FaultSpec == Init /\ [][FaultNext]_vars

SimulationSpec == Init /\ [][SimulationNext]_vars

RunSpec == Init /\ [][RunNext]_vars

DisplaySpec == Init /\ [][DisplayNext]_vars

GateSpec == Init /\ [][GateNext]_vars

CallbackSpec == Init /\ [][CallbackNext]_vars

FairCallbackSpec == CallbackSpec /\ Fairness

(***************************************************************************)
(* Vocabulary of the properties.                                           *)
(***************************************************************************)

\* worker t is inside SharedBuffer.produce or SharedBuffer.consume (the
\* notifications of the call included)
InBufferCall(t) ==
    pc[t] \in {"p_enter", "p_acquire", "p_check", "p_giveback", "p_lock",
               "p_signal", "c_enter", "c_acquire", "c_check", "c_giveback",
               "c_lock", "c_signal", "gbs_lock", "gbs_stats"}

\* thread t is at a blocking acquisition: of the mutex, or of a permit
AtBlockingAcquire(t) ==
    pc[t] \in {"gbs_lock", "p_lock", "c_lock", "r_lock", "p_acquire",
               "c_acquire"}

\* no produce, consume, reset or shutdown is in progress
Quiescent ==
    /\ pc[Gui] = "idle"
    /\ \A t \in Workers : ~InBufferCall(t)

\* the presentation thread has not started any operation
NoCalls == calls = 0

\* the bound of the run has stopped the workers: no cycle is left and every
\* worker is back at the top of its loop
BudgetSpent ==
    /\ cycles = MaxCycles
    /\ \A t \in Workers : pc[t] = "loop"

\* No order has ever been handed over: no produce call has returned True, no
\* consume call has taken an order out of the queue, and the queue never
\* holds more than the one order whose producer is still inside its
\* critical section.
NoCompletedHandoff ==
    /\ \A t \in Chefs : result[t] # "True" /\ orders_produced[t] = 0
    /\ \A t \in Waiters : result[t] # "Order" /\ orders_delivered[t] = 0
    /\ total_consumed = 0
    /\ \A o \in Orders : waiter_id[o] = "nobody"
    /\ Len(buffer) <= 1
    /\ buffer # <<>> => mutex \in Chefs

(***************************************************************************)
(* C1.  A thread that holds the buffer mutex never waits for a lock or a   *)
(* permit: inside the critical sections of produce, consume and reset,     *)
(* notifications included, no blocking acquisition of the mutex or of a    *)
(* semaphore is attempted.                                                 *)
(***************************************************************************)
C1_NoBlockingUnderMutex ==
    \A t \in Threads : mutex = t => ~AtBlockingAcquire(t)

(***************************************************************************)
(* C2.  Every produce call and every consume call eventually returns to    *)
(* its caller, whatever the other threads do.                              *)
(***************************************************************************)
C2_CallsReturn ==
    \A t \in Workers : InBufferCall(t) ~> ~InBufferCall(t)

(***************************************************************************)
(* C3.  Whatever the interleaving of the produce and consume calls of the  *)
(* chefs and waiters, the queue length stays between 0 and capacity.       *)
(***************************************************************************)
C3_QueueBounded ==
    /\ Len(buffer) >= 0
    /\ Len(buffer) <= Capacity

\* the queue is full while another chef, a permit in hand, is about to
\* enter the critical section of produce
C3_Witness ==
    /\ Len(buffer) = Capacity
    /\ \E t \in Chefs : pc[t] = "p_lock"

(***************************************************************************)
(* C4.  Whenever no buffer operation is in progress, the full-slot permits *)
(* equal the queue length and the empty-slot permits equal capacity minus  *)
(* the queue length (after timed-out calls and after shutdown too).        *)
(***************************************************************************)
C4_PermitsMatchQueue ==
    Quiescent => /\ full_slots = Len(buffer)
                 /\ empty_slots = Capacity - Len(buffer)

(***************************************************************************)
(* C8.  Progress: with a chef and a waiter started on a buffer of capacity *)
(* at least 1 and no pause, stop, reset or shutdown, some chef's           *)
(* orders_produced and some waiter's orders_delivered eventually become    *)
(* positive under fair scheduling.                                         *)
(***************************************************************************)
C8_Progress ==
    ([]NoCalls) =>
        <>(\/ /\ \E t \in Chefs : orders_produced[t] > 0
              /\ \E t \in Waiters : orders_delivered[t] > 0
           \/ BudgetSpent)

(***************************************************************************)
(* C9.  produce on a full buffer that no consumer drains returns False     *)
(* when its timeout elapses, and leaves the queue, the counters and both   *)
(* permit counts as they were.                                             *)
(***************************************************************************)

\* a step of the timeout path of the buffer call of worker t: the timeout
\* itself, then the 'blocking' notification
TimeoutStep(t) ==
    \/ produce_timeout(t)
    \/ consume_timeout(t)
    \/ /\ retpc[t] \in {"p_blocking", "c_blocking"}
       /\ get_buffer_state_copy(t) \/ get_buffer_state_return(t)

BufferUntouched ==
    UNCHANGED <<buffer, total_produced, total_consumed, empty_slots,
                full_slots>>

\* the produce call of chef t has timed out
ProduceTimedOut(t) == pc[t] \in {"gbs_lock", "gbs_stats"}
                      /\ retpc[t] = "p_blocking"

C9_FullTimeout ==
    /\ [][\A t \in Chefs : TimeoutStep(t) => BufferUntouched]_vars
    /\ \A t \in Chefs :
          (ProduceTimedOut(t) /\ Len(buffer) = Capacity)
              ~> (pc[t] = "placed" /\ result[t] = "False")

(***************************************************************************)
(* C10.  consume on an empty buffer that no producer fills returns None    *)
(* when its timeout elapses, and leaves the queue, the counters and both   *)
(* permit counts as they were.                                             *)
(***************************************************************************)

\* the consume call of waiter t has timed out
ConsumeTimedOut(t) == pc[t] \in {"gbs_lock", "gbs_stats"}
                      /\ retpc[t] = "c_blocking"

C10_EmptyTimeout ==
    /\ [][\A t \in Waiters : TimeoutStep(t) => BufferUntouched]_vars
    /\ \A t \in Waiters :
          ConsumeTimedOut(t) ~> (pc[t] = "picked" /\ result[t] = "None")

\* a consume call that found the buffer empty has timed out and returned
\* None (nothing else was ever called on the buffer)
C10_Witness ==
    /\ NoCalls
    /\ buffer = <<>>
    /\ \E t \in Waiters : pc[t] = "picked" /\ result[t] = "None"

(***************************************************************************)
(* Vocabulary of the shutdown and reset properties.                        *)
(***************************************************************************)

\* the presentation thread is inside reset()
InReset ==
    \/ pc[Gui] \in {"r_lock", "r_refill", "r_stats", "r_clear"}
    \/ pc[Gui] \in {"gbs_lock", "gbs_stats"} /\ retpc[Gui] = "r_done"

\* the presentation thread is inside shutdown()
InShutdown ==
    \/ pc[Gui] = "s_release"
    \/ pc[Gui] \in {"gbs_lock", "gbs_stats"} /\ retpc[Gui] = "s_done"

\* a shutdown() call has returned
ShutdownReturned ==
    \E i \in 1..Len(completed) : completed[i] = "shutdown"

\* reset() has been called: a call has returned or one is in progress
ResetCalled ==
    \/ InReset
    \/ \E i \in 1..Len(completed) : completed[i] = "reset"

\* a shutdown() call has returned and reset() has not been called since
ShutDown ==
    /\ completed # <<>>
    /\ completed[Len(completed)] = "shutdown"
    /\ ~InReset

\* worker t issues its produce or consume call
CallEntry(t) == produce_enter(t) \/ consume_enter(t)

\* the step returns failure to worker t and leaves the queue, the counters,
\* the permits and the orders alone
FailsAtOnce(t) ==
    /\ pc'[t] \in {"placed", "picked"}
    /\ result'[t] \in {"False", "None"}
    /\ UNCHANGED <<buffer, total_produced, total_consumed, empty_slots,
                   full_slots, status, waiter_id>>

Parked(t) ==
    \/ pc[t] = "p_acquire" /\ empty_slots = 0
    \/ pc[t] = "c_acquire" /\ full_slots = 0

\* the buffer call of worker t has returned failure
ReturnedFailure(t) ==
    \/ pc[t] = "placed" /\ result[t] = "False"
    \/ pc[t] = "picked" /\ result[t] = "None"

\* between the call of shutdown() that found t parked and the return of
\* t's call, t neither appends nor removes
C12_NoEffect ==
    [][\A t \in Workers :
          (shutdown_event /\ pc[t] \in {"p_acquire", "p_check", "c_acquire",
                                        "c_check"}
             /\ pc'[t] # pc[t])
          => (buffer' = buffer /\ pc'[t] \notin {"p_lock", "c_lock"})]_vars

C12_ShutdownWakesParked ==
    /\ C12_NoEffect
    /\ ([]~ResetCalled) =>
          \A t \in Workers :
              (pc[Gui] = "s_release" /\ Parked(t)) ~> ReturnedFailure(t)

(***************************************************************************)
(* C13.  shutdown() is idempotent: a second call leaves the shutdown flag, *)
(* the queue and the counters as after the first one, and later produce,   *)
(* consume and reset calls end as if it had been called once (produce and  *)
(* consume are rejected at once; reset drains whatever permits the calls   *)
(* have released).                                                         *)
(***************************************************************************)

\* a step of the presentation thread inside shutdown(), the call included
ShutdownStep ==
    \/ shutdown_begin
    \/ shutdown_release
    \/ InShutdown /\ get_buffer_state_copy(Gui)
    \/ InShutdown /\ get_buffer_state_return(Gui)

\* shutdown() has returned twice in a row
ShutDownTwice ==
    /\ ShutDown
    /\ Len(completed) >= 2
    /\ completed[Len(completed) - 1] = "shutdown"

C13_ShutdownIdempotent ==
    /\ [][(ShutDown /\ ShutdownStep)
            => UNCHANGED <<shutdown_event, buffer, total_produced,
                           total_consumed, status, waiter_id>>]_vars
    /\ [][\A t \in Workers :
            (ShutDownTwice /\ CallEntry(t)) => FailsAtOnce(t)]_vars
    /\ [][reset_drain => (empty_slots' = 0 /\ full_slots' = 0
                          /\ buffer' = <<>>)]_vars

\* shutdown() has returned twice, each call has released its permits, and
\* the flag is still set
C13_Witness ==
    /\ completed = <<"shutdown", "shutdown">>
    /\ full_slots = 2 * ShutdownPermits
    /\ shutdown_event

(***************************************************************************)
(* C14.  When no produce or consume call is in flight, after reset()       *)
(* returns the queue is empty, both counters are 0, the empty-slot permits *)
(* equal capacity and the full-slot permits are 0, whatever they were      *)
(* before (after a shutdown too), and the next produce call on the buffer  *)
(* succeeds without waiting for a consumer.                                *)
(***************************************************************************)

\* no produce or consume call is in flight
NoCallInFlight == \A t \in Workers : ~InBufferCall(t)

\* reset() is at its return: its last notification is reading the counters
ResetAtReturn == pc[Gui] = "gbs_stats" /\ retpc[Gui] = "r_done"

\* the buffer as SharedBuffer(capacity) constructs it
FreshBuffer ==
    /\ buffer = <<>>
    /\ total_produced = 0
    /\ total_consumed = 0
    /\ empty_slots = Capacity
    /\ full_slots = 0

\* the last call of the presentation thread that returned is a reset()
ResetLast ==
    /\ completed # <<>>
    /\ completed[Len(completed)] = "reset"

\* chef t issues the first produce call on the buffer reset() has left
NextProduce(t) ==
    /\ ResetLast
    /\ FreshBuffer
    /\ pc[t] = "p_enter"
    /\ \A u \in Workers \ {t} : ~InBufferCall(u)

\* a produce call has returned True
ProduceSucceeded == \E u \in Chefs : pc[u] = "placed" /\ result[u] = "True"

\* The last conjunct: with capacity 1 the next produce call succeeds.  When
\* a second chef calls while the first call is in flight, the call that
\* takes the permit is the one that succeeds.
C14_ResetRestores ==
    /\ ([](InReset => NoCallInFlight)) => [](ResetAtReturn => FreshBuffer)
    /\ ([](InReset => NoCallInFlight) /\ [](ResetLast => pc[Gui] = "idle"))
          => \A t \in Chefs : NextProduce(t) ~> ProduceSucceeded

(***************************************************************************)
(* C15.  Every snapshot get_buffer_state returns is a consistent view of   *)
(* one instant: in the runs without reset, its total_produced minus its    *)
(* total_consumed equals its current_size, even when produce and consume   *)
(* run concurrently with the snapshot.                                     *)
(***************************************************************************)

\* the counters and the size of the dict handed to thread t agree
SnapshotConsistent(t) ==
    buffer_state(t).total_produced - buffer_state(t).total_consumed
        = buffer_state(t).current_size

C15_SnapshotOfOneInstant ==
    [][\A t \in Threads :
          (~ResetCalled /\ get_buffer_state_return(t))
              => SnapshotConsistent(t)]_vars

(***************************************************************************)
(* C16.  TERMINATED is absorbing: once the state of a worker is TERMINATED *)
(* it never changes again, whatever pause(), resume(), stop() or           *)
(* set_speed() calls follow, and a worker enters TERMINATED at most once.  *)
(***************************************************************************)
C16_TerminatedAbsorbing ==
    /\ [][\A t \in Workers :
            current_state[t] = "TERMINATED"
                => current_state'[t] = "TERMINATED"]_vars
    /\ [][\A t \in Workers :
            worker_finally(t) => current_state[t] # "TERMINATED"]_vars

\* a worker has terminated and pause() has been called on it afterwards
C16_Witness ==
    \E t \in Workers :
        /\ current_state[t] = "TERMINATED"
        /\ stop_event[t]
        /\ ~pause_event[t]

(***************************************************************************)
(* C17.  If stop() is called while a worker is parked on the pause gate    *)
(* (state PAUSED), the worker wakes, goes to TERMINATED without first      *)
(* returning to RUNNING, and performs no further order creation or buffer  *)
(* call.                                                                   *)
(***************************************************************************)

\* worker t is at the pause gate (about to wait, parked, or just woken) or
\* on its way out of run() from there, and stop() has been called on it
StoppedAtGate(t) ==
    /\ stop_event[t]
    /\ current_state[t] = "PAUSED"
    /\ pc[t] \in {"pausing", "parked", "woken", "finally"}

\* from the gate a stopped worker only goes on to the end of run(): its
\* state stays PAUSED until it is TERMINATED, it creates no order and makes
\* no buffer call
C17_StraightToTerminated ==
    [][\A t \in Workers :
          StoppedAtGate(t)
              => /\ pc'[t] \in {"pausing", "parked", "woken", "finally",
                                "terminated"}
                 /\ current_state'[t] \in {"PAUSED", "TERMINATED"}
                 /\ order'[t] = order[t]]_vars

\* stop() is running on worker t (stop_event is set, the gate not yet
\* reopened) and finds t parked on the gate
StopFindsParked(t) ==
    /\ pc[Gui] = "stopping"
    /\ retpc[Gui] = t
    /\ pc[t] = "parked"

C17_StopWhilePaused ==
    /\ C17_StraightToTerminated
    /\ \A t \in Workers :
          StopFindsParked(t)
              ~> (current_state[t] = "TERMINATED" /\ pc[t] = "terminated")

\* stop() has woken a parked worker, which is about to look at stop_event
C17_Witness ==
    \E t \in Workers :
        /\ pc[t] = "woken"
        /\ stop_event[t]
        /\ current_state[t] = "PAUSED"
        /\ pc[Gui] = "idle"

(***************************************************************************)
(* C18.  After stop() is called on a started worker, in whatever state it  *)
(* is (preparing or delivering, sleeping between cycles, inside a buffer   *)
(* call, paused), the worker eventually reaches TERMINATED and its thread  *)
(* exits.                                                                  *)
(***************************************************************************)

\* stop() has been called on worker t, whose run() has begun
StopCalled(t) == stop_event[t] /\ pc[t] # "start"

C18_StopTerminates ==
    \A t \in Workers :
        StopCalled(t)
            ~> (current_state[t] = "TERMINATED" /\ pc[t] = "terminated")

(***************************************************************************)
(* C19.  A worker that is parked in PAUSED and then receives resume() (and *)
(* no stop) eventually leaves PAUSED, returns to RUNNING and continues     *)
(* with a normal work cycle; a worker that is never paused never enters    *)
(* PAUSED.                                                                 *)
(***************************************************************************)

\* worker t has been let through the gate and has not been stopped
Resumed(t) == pc[t] = "woken" /\ ~stop_event[t]

\* worker t is RUNNING at the first step of a work cycle
CycleBegun(t) ==
    /\ current_state[t] = "RUNNING"
    /\ pc[t] = IF t \in Chefs THEN "create" ELSE "wait"

\* resume() wakes the parked worker; the woken worker, when not stopped,
\* goes from PAUSED to RUNNING and into a work cycle; a worker enters PAUSED
\* only while pause() is in force on it
C19_GateSteps ==
    /\ [][\A t \in Workers :
            (resume(t) /\ pc[t] = "parked") => pc'[t] = "woken"]_vars
    /\ [][\A t \in Workers :
            (Resumed(t) /\ pc'[t] # pc[t])
                => (current_state[t] = "PAUSED" /\ CycleBegun(t)')]_vars
    /\ [][\A t \in Workers :
            (current_state[t] # "PAUSED" /\ current_state'[t] = "PAUSED")
                => ~pause_event[t]]_vars

\* the worker let through the gate begins a cycle, as long as the run has a
\* cycle left
C19_ResumeContinues ==
    /\ C19_GateSteps
    /\ \A t \in Workers :
          ([]~stop_event[t])
              => (Resumed(t) ~> (CycleBegun(t) \/ cycles = MaxCycles))

\* resume() has woken a parked worker that was not stopped, and the run has
\* a cycle left for it
C19_Witness ==
    \E t \in Workers :
        /\ Resumed(t)
        /\ pause_event[t]
        /\ current_state[t] = "PAUSED"
        /\ cycles < MaxCycles

(***************************************************************************)
(* C20.  An unexpected error raised inside one work cycle of a producer or *)
(* consumer does not terminate the worker: the error is caught, the loop   *)
(* continues with the next cycle, and the worker reaches TERMINATED only   *)
(* after stop() has been called.                                           *)
(***************************************************************************)
C20_ErrorNotFatal ==
    /\ [][\A t \in Workers : worker_error(t) => pc'[t] = "loop"]_vars
    /\ [](\A t \in Workers :
             current_state[t] = "TERMINATED" => stop_event[t])

(***************************************************************************)
(* C21.  Along every execution each order's status only moves forward      *)
(* through Created, In Preparation, Ready, Being Delivered, Delivered      *)
(* (never backward), and its waiter_id is set exactly once, at the         *)
(* transition to Being Delivered.                                          *)
(***************************************************************************)

\* the place of a status in the life of an order (OrderStatus, in the
\* order of its members; None: the order does not exist yet)
StatusRank(s) ==
    CASE s = "None"            -> 0
      [] s = "Created"         -> 1
      [] s = "In Preparation"  -> 2
      [] s = "Ready"           -> 3
      [] s = "Being Delivered" -> 4
      [] s = "Delivered"       -> 5

C21_StatusForward ==
    [][\A o \in Orders :
          /\ StatusRank(status'[o]) >= StatusRank(status[o])
          /\ waiter_id'[o] # waiter_id[o]
                => /\ waiter_id[o] = "nobody"
                   /\ status[o] # "Being Delivered"
                   /\ status'[o] = "Being Delivered"
          /\ (status[o] # "Being Delivered"
                 /\ status'[o] = "Being Delivered")
                => waiter_id'[o] # waiter_id[o]]_vars

\* an order has gone from Created through In Preparation to Ready and lies
\* in the queue
C21_Witness ==
    \E o \in Orders :
        /\ status[o] = "Ready"
        /\ buffer = <<o>>

(***************************************************************************)
(* C22.  Emitting a notification never blocks the emitting thread: a       *)
(* notification sent by the buffer or by a worker completes without        *)
(* waiting for the buffer mutex, a worker lock or the consumer of the      *)
(* notification queue.                                                     *)
(***************************************************************************)

\* thread t is emitting a notification of the buffer and stands at the
\* `with self.mutex:` of the get_buffer_state call that fills the event
NotifyingAtMutex(t) == pc[t] = "gbs_lock" /\ retpc[t] # "idle"

C22_NotificationNeverWaits ==
    \A t \in Threads : NotifyingAtMutex(t) => lock_available(t)

(***************************************************************************)
(* C23.  reset() is atomic for concurrent observers: no get_buffer_state   *)
(* snapshot taken while reset() runs shows a mixed state, such as          *)
(* current_size = 0 together with a non-zero total_produced or             *)
(* total_consumed of the previous run.                                     *)
(***************************************************************************)

\* the dict handed to thread t shows an empty queue and counters that are
\* not those of an empty queue
SnapshotMixed(t) ==
    /\ buffer_state(t).current_size = 0
    /\ buffer_state(t).total_produced # buffer_state(t).total_consumed

C23_ResetAtomicForObservers ==
    [][\A t \in Workers :
          (InReset /\ get_buffer_state_return(t)) => ~SnapshotMixed(t)]_vars

(***************************************************************************)
(* C24.  In the reset sequence of the presentation thread (stop() of every *)
(* worker, join of each with a timeout of one second, then reset() of the  *)
(* buffer) no worker is inside a produce or consume call at the moment     *)
(* reset() executes.                                                       *)
(***************************************************************************)

\* the sequence has left its join loops and calls reset() next
ResetOfSequence == pc[Gui] = "rs_reset"

C24_ResetFindsNoCall == ResetOfSequence => NoCallInFlight

(***************************************************************************)
(* C25.  A worker enters PAUSED only at the top of its loop, never in the  *)
(* middle of a buffer call: a worker in state PAUSED holds no permit and   *)
(* no lock and is not inside produce or consume, and a pause() issued      *)
(* during a buffer call takes effect only after that cycle has finished.   *)
(***************************************************************************)

\* worker t becomes PAUSED in this step
EntersPaused(t) ==
    current_state[t] # "PAUSED" /\ current_state'[t] = "PAUSED"

C25_PausedOnlyAtLoopTop ==
    /\ [](\A t \in Workers :
             current_state[t] = "PAUSED" => ~InBufferCall(t) /\ mutex # t)
    /\ [][\A t \in Workers : EntersPaused(t) => worker_loop(t)]_vars

C25_Witness ==
    \E t \in Workers :
       /\ current_state[t] = "PAUSED"
       /\ pc[t] = "parked"
       /\ orders_blocked[t] > 0

(***************************************************************************)
(* C26.  A worker's state is BLOCKED only after its most recent buffer     *)
(* call timed out (it is backing off before a retry); while a worker is    *)
(* about to make a buffer call, or is inside one that has not timed out,   *)
(* its state is WAITING, not BLOCKED.                                      *)
(***************************************************************************)

\* worker t is about to call _place_order / _pickup_order
AboutToCall(t) == pc[t] \in {"place", "pickup"}

\* the buffer call of worker t has timed out: it is emitting the 'blocking'
\* notification that precedes `return False` / `return None`
CallTimedOut(t) ==
    /\ pc[t] \in {"gbs_lock", "gbs_stats"}
    /\ retpc[t] \in {"p_blocking", "c_blocking"}

C26_WaitingUntilTimeout ==
    \A t \in Workers :
       (AboutToCall(t) \/ (InBufferCall(t) /\ ~CallTimedOut(t)))
          => current_state[t] = "WAITING"

(***************************************************************************)
(* C27.  Every state change of a worker follows the documented graph:      *)
(* Idle to Running; Running to Waiting, Blocked or Paused and back to      *)
(* Running; Waiting to Blocked and Blocked to Waiting; any state to        *)
(* Terminated.  In particular PAUSED is entered only from RUNNING, and a   *)
(* successful buffer call or a preparation or delivery delay happens only  *)
(* while the state is RUNNING.                                             *)
(***************************************************************************)

\* the documented graph has an edge from state a to state b
Documented(a, b) ==
    \/ b = "TERMINATED"
    \/ a = "IDLE" /\ b = "RUNNING"
    \/ a = "RUNNING" /\ b \in {"WAITING", "BLOCKED", "PAUSED"}
    \/ a \in {"WAITING", "BLOCKED", "PAUSED"} /\ b = "RUNNING"
    \/ a = "WAITING" /\ b = "BLOCKED"
    \/ a = "BLOCKED" /\ b = "WAITING"

\* worker t is in its preparation or delivery delay, or its buffer call has
\* left the critical section with the order handed over
AtWork(t) == pc[t] \in {"cooking", "deliver", "p_signal", "c_signal"}

C27_DocumentedGraph ==
    /\ [][\A t \in Workers :
             current_state'[t] # current_state[t]
                => Documented(current_state[t], current_state'[t])]_vars
    /\ [](\A t \in Workers : AtWork(t) => current_state[t] = "RUNNING")

(***************************************************************************)
(* C28.  When a producer's produce call times out, the producer counts     *)
(* the failure, backs off and retries placing the same order; it creates   *)
(* a new order only after the previous one was placed, so an order a       *)
(* running producer has prepared is never discarded.                       *)
(***************************************************************************)

\* order o exists and has not been placed in the buffer yet
NotYetPlaced(o) == status[o] \in {"Created", "In Preparation"}

\* a chef has order o as its current order
HeldByChef(o) == \E t \in Chefs : order[t] = o

C28_PreparedOrderKept ==
    NoCalls => \A o \in Orders : NotYetPlaced(o) => HeldByChef(o)

(***************************************************************************)
(* C30.  Order ids are unique and increasing across all producers: no two  *)
(* orders created by any chefs, running concurrently, get the same         *)
(* order_id, and an order created later gets a larger id than every order  *)
(* created before it, also across buffer resets.                           *)
(***************************************************************************)

\* an order with id o has been created
Exists(o) == status[o] # "None"

\* chef t creates an order in this step
Creates(t) == order'[t] # NoOrder /\ order'[t] # order[t]

\* reset() has returned at least once
ResetReturned == \E i \in 1..Len(completed) : completed[i] = "reset"

C30_IdsUniqueIncreasing ==
    [][\A t \in Chefs :
          Creates(t) => /\ ~Exists(order'[t])
                        /\ \A o \in Orders : Exists(o) => o < order'[t]
                        /\ \A u \in Chefs \ {t} : order[u] # order'[t]]_vars

C30_Witness ==
    /\ ResetReturned
    /\ \E t \in Chefs : pc[t] = "prepare" /\ order[t] = 2 /\ Exists(1)

(***************************************************************************)
(* C31.  The buffer lock and the worker state locks are separate domains:  *)
(* a worker's state is written only while holding that worker's own state  *)
(* lock, and no thread ever holds the buffer mutex and a worker state lock *)
(* at the same time.                                                       *)
(***************************************************************************)

\* the state of worker t is written in this step
WritesState(t) == current_state'[t] # current_state[t]

\* thread th holds the buffer mutex and the state lock of some worker
HoldsBoth(th) ==
    mutex = th /\ \E w \in Workers : state_lock_holder(w) = th

C31_SeparateLockDomains ==
    /\ [](\A th \in Threads : ~HoldsBoth(th))
    /\ [][\A t \in Workers :
             WritesState(t) => /\ WorkerStep(t)
                               /\ state_lock_available(t)
                               /\ mutex # t]_vars

C31_Witness ==
    \E t \in Chefs :
       /\ mutex = t
       /\ state_lock_holder(t) = Gui
       /\ current_state[t] = "BLOCKED"

(***************************************************************************)
(* C32.  An exception raised by the callback of the presentation layer     *)
(* during a notification never propagates into the core: produce still     *)
(* appends the order, releases the full-slot permit and returns True,      *)
(* consume still returns the order and releases the empty-slot permit, and *)
(* the worker loop continues.                                              *)
(***************************************************************************)

\* the order of chef t has been appended by its produce call, which has not
\* returned yet
Appended(t) == mutex = t /\ InBufferCall(t)

\* the produce call of chef t has returned True and a full-slot permit was
\* released for the order
ReturnedTrue(t) == pc[t] = "placed" /\ result[t] = "True"

C32_CallbackErrorContained ==
    \A t \in Chefs : Appended(t) ~> ReturnedTrue(t)

(***************************************************************************)
(* C33.  If consume acquires a full-slot permit but then finds the queue   *)
(* empty, it returns None and does not release the full-slot permit again  *)
(* (the permit is consumed), and it releases no empty-slot permit.         *)
(***************************************************************************)

\* waiter t enters the critical section of consume, with the permit it has
\* taken, and finds the deque empty
FindsQueueEmpty(t) ==
    pc[t] = "c_lock" /\ buffer = <<>> /\ consume_critical(t)

C33_PermitConsumedOnEmpty ==
    [][\A t \in Waiters :
          FindsQueueEmpty(t) => /\ result'[t] = "None"
                                /\ full_slots' = full_slots
                                /\ empty_slots' = empty_slots]_vars

(***************************************************************************)
(* C35.  stop() is final: once stop() has been called on a worker, a       *)
(* pause() call made afterwards, at any point of the worker's loop, cannot *)
(* park the worker on the pause gate; the worker still reaches TERMINATED  *)
(* without needing a further resume() or stop().                           *)
(***************************************************************************)

\* stop() is in progress on worker t: stop_event is set, the gate not yet
\* reopened
Stopping(t) == pc[Gui] = "stopping" /\ retpc[Gui] = t

\* worker t waits in pause_event.wait() with the gate closed
ParkedAtGate(t) == pc[t] = "parked" /\ ~pause_event[t]

C35_StopIsFinal ==
    \A t \in Workers : (stop_event[t] /\ ParkedAtGate(t)) => Stopping(t)

(***************************************************************************)
(* C36.  After stop() has been called on a worker, a producer starts at    *)
(* most one further produce call and a consumer at most one further        *)
(* consume call before the worker terminates; the stop flag is checked at  *)
(* the top of the loop, on waking from the pause gate and inside every     *)
(* simulated sleep.                                                        *)
(***************************************************************************)

\* worker t is inside the buffer call of its cycle, or past it: in the rest
\* of the cycle, at the `while` test, or leaving run()
CallBegun(t) ==
    \/ InBufferCall(t)
    \/ pc[t] \in {"placed", "picked", "deliver", "rest", "loop", "finally",
                  "terminated"}

\* worker t begins a produce or consume call in this step
StartsCall(t) ==
    pc[t] \notin {"p_enter", "c_enter"} /\ pc'[t] \in {"p_enter", "c_enter"}

\* a stopped worker that has begun a call begins no other one, and stop_event
\* is never cleared
C36_OneCallAfterStop ==
    [][\A t \in Workers :
          stop_event[t] => /\ stop_event'[t]
                           /\ CallBegun(t) => (CallBegun(t)' /\ ~StartsCall(t))
                           /\ StartsCall(t) => pc[t] \in {"place", "pickup"}]_vars

C36_Witness ==
    \E t \in Workers : stop_event[t] /\ pc[t] \in {"place", "pickup"}

(***************************************************************************)
(* C37.  reset() is safe against calls that overlap it: a produce or       *)
(* consume that started before or during reset() either completes before   *)
(* the queue is cleared or fails, so when reset() returns and the          *)
(* overlapping calls have returned the queue is empty, the permit counts   *)
(* are (empty = capacity, full = 0), and the queue length can never exceed *)
(* capacity afterwards.                                                    *)
(***************************************************************************)

\* reset() was the last call of the presentation thread, it has returned,
\* and no produce or consume call is in progress
ResetSettled ==
    /\ ResetLast
    /\ pc[Gui] = "idle"
    /\ NoCallInFlight

\* the queue and the two semaphores as SharedBuffer(capacity) constructs them
FreshPermits ==
    /\ buffer = <<>>
    /\ empty_slots = Capacity
    /\ full_slots = 0

\* once reset() and the calls around it have returned, the queue is empty
\* and the permits are (capacity, 0); after a reset the queue never holds
\* more than capacity orders
C37_ResetSafeAgainstOverlap ==
    /\ ResetSettled => FreshPermits
    /\ ResetLast => Len(buffer) <= Capacity

(***************************************************************************)
(* C38.  Shutdown is permanent: once shutdown() has been called on a       *)
(* buffer, no later sequence of operations on that buffer, including       *)
(* reset(), makes is_shutdown() false again or lets a produce call return  *)
(* True or a consume call return an order.                                 *)
(***************************************************************************)

\* shutdown() has been called: a call is in progress or one has returned
ShutdownCalled == InShutdown \/ ShutdownReturned

\* SharedBuffer.is_shutdown()
is_shutdown == shutdown_event

\* the buffer call of worker t returns True, or an order, in this step
Succeeds(t) ==
    /\ result[t] \notin {"True", "Order"}
    /\ result'[t] \in {"True", "Order"}

\* after shutdown() has been called is_shutdown() is true for ever and no
\* produce or consume call succeeds
C38_ShutdownPermanent ==
    /\ [](ShutdownCalled => is_shutdown)
    /\ [][ShutdownCalled => \A t \in Workers : ~Succeeds(t)]_vars

(***************************************************************************)
(* C39.  Counter conservation: in every execution without reset,           *)
(* total_consumed <= total_produced always, and whenever the buffer mutex  *)
(* is free total_produced - total_consumed equals the queue length.        *)
(***************************************************************************)

\* the orders counted in and not counted out
Outstanding == total_produced - total_consumed

\* as long as reset() has not been called, no more orders are counted out
\* than in, and with the mutex free the difference is the queue length
C39_CounterConservation ==
    ~ResetCalled => /\ total_consumed <= total_produced
                    /\ mutex = Free => Outstanding = Len(buffer)

\* no reset, and an order has been appended and counted
C39_Witness ==
    /\ ~ResetCalled
    /\ total_produced = 1
    /\ total_consumed = 0
    /\ Len(buffer) = 1

(***************************************************************************)
(* C40.  Worker counters agree with the buffer: each producer cycle        *)
(* increments exactly one of orders_produced (produce returned True) or    *)
(* orders_blocked (it returned False), each consumer cycle exactly one of  *)
(* orders_delivered or orders_blocked; hence, without reset, the sum of    *)
(* all chefs' orders_produced never exceeds total_produced and the sum of  *)
(* all waiters' orders_delivered never exceeds total_consumed, with        *)
(* equality once all workers have terminated.                              *)
(***************************************************************************)

\* the sum of the counter f over the workers in S
RECURSIVE SumOver(_, _)
SumOver(f, S) ==
    IF S = {} THEN 0
    ELSE LET t == CHOOSE u \in S : TRUE
         IN  f[t] + SumOver(f, S \ {t})

\* worker t has begun a cycle and has not counted it yet: a chef up to the
\* test of what produce returned, a waiter up to the test of what consume
\* returned and, with an order in hand, up to the end of _deliver_order
CycleOpen(t) ==
    \/ InBufferCall(t)
    \/ pc[t] \in {"create", "prepare", "cooking", "place", "placed", "wait",
                  "pickup", "picked", "deliver"}

\* what all the workers have counted, in any of their three counters
CyclesCounted ==
    SumOver(orders_produced, Chefs) + SumOver(orders_delivered, Waiters)
        + SumOver(orders_blocked, Workers)

\* every worker has left run()
AllTerminated == \A t \in Workers : pc[t] = "terminated"

\* every cycle that has begun is open or has been counted once, in one
\* counter; without reset the workers have counted no more successes than
\* the buffer, and exactly as many once they have all terminated
C40_WorkerCountersAgree ==
    /\ CyclesCounted + Cardinality({t \in Workers : CycleOpen(t)}) = cycles
    /\ ~ResetCalled =>
          /\ SumOver(orders_produced, Chefs) <= total_produced
          /\ SumOver(orders_delivered, Waiters) <= total_consumed
          /\ AllTerminated =>
                /\ SumOver(orders_produced, Chefs) = total_produced
                /\ SumOver(orders_delivered, Waiters) = total_consumed

\* no reset; every worker has terminated, and a chef and a waiter have each
\* counted one failed cycle
C40_Witness ==
    /\ ~ResetCalled
    /\ AllTerminated
    /\ \E t \in Chefs : orders_blocked[t] = 1
    /\ \E t \in Waiters : orders_blocked[t] = 1

====
